---- MODULE Spec2Model ----
(***************************************************************************)
(* Transfer-fee computation and harvest/withdraw settlement of the token   *)
(* scripts.                                                                *)
(*                                                                         *)
(*   XferSpec : one run of a transfer script (check-token-fee-config.ts,   *)
(*              transfer-checked.ts, check-swap-fees.ts,                   *)
(*              transfer-between-wallets.ts): fee calculation, pre-flight  *)
(*              balance check, submission of the transfer instruction.     *)
(*   Spec     : the ledger's withheld amounts under fee-bearing transfers  *)
(*              and runs of harvest-fees (unnamed/part_012) and            *)
(*              harvest-specific-account.ts.                               *)
(*                                                                         *)
(* Amounts are raw base units.  The scripts compute with BigInt, so the    *)
(* arithmetic is exact; the model keeps amounts small enough for exact     *)
(* integer arithmetic.                                                     *)
(***************************************************************************)
EXTENDS Integers, Sequences, FiniteSets, TLC

\* ------------------------------------------------------------------ bounds
\* largest gross amount / source balance offset drawn for a transfer run
MaxAmount == 4
\* largest maximumFee drawn for a mint's fee configuration
MaxMaximumFee == 2
\* cap on the total of fees withheld by transfers in the harvest model
MaxTotalFees == 3
\* largest single fee withheld by one transfer in the harvest model
MaxTransferFee == 1
\* number of script runs in one behaviour of the harvest model
MaxRuns == 2
\* number of token accounts of the mint
NumAccounts == 3
\* largest --batch-size and --concurrency drawn for a harvest run
MaxBatchSize == 2
MaxConcurrency == 2
\* width of the significand of a Number in the model (53 bits in JavaScript):
\* integers up to 2^MantissaBits are exact, larger ones are rounded
MantissaBits == 3
\* wallets holding tokens in transfer-between-wallets, and the largest --count
NumWallets == 2
MaxCount == 3
\* largest number of --mints, --wallets and --rpcs given to parallel-harvest
MaxMints == 3
MaxWalletPaths == 2
MaxRpcs == 2

\* ------------------------------------------------------- program constants
\* BigInt(10000): one hundred percent in basis points
BasisPointDenominator == 10000

\* ---------------------------------------------------------- input domains
GrossAmounts == 0..MaxAmount
\* amounts asked for on the command line, in base units: the exactly
\* representable ones and the first integer that a Number cannot hold
RequestedAmounts == GrossAmounts \cup {2 ^ MantissaBits + 1}
SourceAmounts == 0..(2 * MaxAmount + 1)
BasisPoints == {0, 2500, 5000, 9999, BasisPointDenominator}
MaximumFees == 0..MaxMaximumFee
TransferScripts == {"explicit", "checked", "swap", "between"}
Accounts == 1..NumAccounts
\* the account findAllTokenAccounts checks explicitly (specificAccounts)
SpecificAccount == NumAccounts
HarvestScripts == {"harvest-fees", "harvest-specific-account"}
\* outcomes of sendAndConfirmTransaction: the transaction is applied and a
\* signature returned; it is not applied and the call throws; or the call
\* throws (confirmation timed out) although the transaction was applied
TxOutcomes == {"confirmed", "rejected", "ambiguous"}
Undefined == -1     \* withdrawnAmount: bigint | undefined
\* parseInt(options.batchSize, 10) and parseInt(options.concurrency, 10): the
\* options are not validated, so 0 is a value the command line can produce
BatchSizes == 0..MaxBatchSize
Concurrencies == 0..MaxConcurrency
\* findAllTokenAccounts: const maxRetries = 3
maxRetries == 3
\* findAllTokenAccounts: the factor of the backoff delay, in ms
BackoffBase == 500

VARIABLES
  \* ---- one run of a transfer script
  script,         \* which transfer script runs
  requested,      \* options.amount in base units, as typed
  amount,         \* gross amount in base units (amount / transferAmount / amountLamports)
  hasFeeConfig,   \* getTransferFeeConfig(mintInfo) is not null
  feeBasisPoints, \* newerTransferFee.transferFeeBasisPoints
  maxFee,         \* newerTransferFee.maximumFee
  sourceAmount,   \* sourceAccount.amount / source.balance
  tpc,            \* position of the script
  fee,            \* the fee variable of the script
  feeCalculated,  \* the script has executed its fee calculation
  sentTx,         \* transfer instructions submitted: <<[amount, fee]>>
  \* ---- the ledger
  withheld,       \* withheldAmount of each token account
  pool,           \* transferFeeConfig.withheldAmount of the mint
  destBalance,    \* amount the withdraw destination has received from the pool
  totalFees,      \* sum of the fees withheld by all transfers so far
  \* ---- one run of a harvest script
  running,        \* which harvest script runs ("none" between runs)
  runs,           \* number of runs started
  hpc,            \* position of the script
  batchSize, concurrency, dryRun,   \* options of the run
  retryCount,     \* findAllTokenAccounts: failed attempts so far
  delays,         \* findAllTokenAccounts: the delays waited so far, in ms
  tokenAccounts,  \* accounts the run harvests from
  batches,        \* chunk(tokenAccounts, batchSize)
  i,              \* loop index of harvestFeesToMint
  outcome,        \* per batch: "pending", "inflight", "ok" (returned), "failed" (threw)
  applied,        \* per batch: the ledger applied the batch's transaction
  successful, failed,               \* the tally of harvestFeesToMint
  zeroBranch,     \* main took the tokenAccounts.length === 0 branch
  withdrawnAmount, withdrawResult,  \* locals of main
  withdrawTxs,    \* withdraw transactions this run has submitted
  runError,       \* the run has reported an error
  harvestHistory, \* records saved by saveHarvestResults
  \* ---- bookkeeping of the ledger's history
  harvestedNow,   \* accounts harvested by this run, no transfer to them since
  quiet,          \* no transfer has happened since the run started
  reports,        \* what the finished runs reported, in order
  \* ---- one run of a token creation script
  cscript,        \* which creation script runs
  cBps,           \* --fee-basis-points / tokenConfig.feeBasisPoints
  cMaxFee,        \* --max-fee / tokenConfig.maxFee, in tokens
  cpc,            \* position of the script
  createTx,       \* fee configurations submitted: <<[bps, maximumFee]>>
  mintConfig,     \* fee configuration of the mint created: <<[bps, maximumFee]>>
  \* ---- the transfer loop of transfer-between-wallets.ts
  walletsWithTokens, \* per wallet: the balance field the script keeps
  onChain,        \* per wallet: the amount of its token account on the ledger
  mintBps, mintMaxFee, \* transfer fee configuration of the mint
  amountLamports, \* amount of each transfer, in base units
  bcount,         \* count: number of transfers asked for
  bi,             \* loop index i of the transfer loop
  sourceIndex, destIndex, \* wallets picked by the current iteration
  bpc,            \* position of the loop
  \* ---- one run of parallel-harvest (unnamed/part_009)
  mintsLen, walletsLen, rpcsLen, \* options.mints.length, .wallets.length, .rpcs.length
  pConcurrency,   \* parseInt(options.concurrency, 10)
  operations,     \* the operations main has built: <<[mint, wallet, rpc]>>
  opBatches,      \* chunk(operations, concurrency)
  pi,             \* index i of the loop over the batches
  spawned,        \* the operations a child harvest was started for, in order
  exitCode,       \* per mint: exit code of its child (NoExit while none has exited)
  summary,        \* what main printed when it ended
  ppc             \* position of main

xvars == <<script, requested, amount, hasFeeConfig, feeBasisPoints, maxFee, sourceAmount,
           tpc, fee, feeCalculated, sentTx>>

ledger == <<withheld, pool, destBalance, totalFees>>

options == <<batchSize, concurrency, dryRun>>

discoverLocals == <<retryCount, delays>>

harvestLocals == <<tokenAccounts, batches, i, outcome, applied, successful, failed>>

withdrawLocals == <<withdrawnAmount, withdrawResult, withdrawTxs>>

history == <<harvestedNow, quiet>>

hvars == <<ledger, running, runs, hpc, options, discoverLocals, harvestLocals,
           zeroBranch, withdrawLocals, runError, harvestHistory, history>>

cvars == <<cscript, cBps, cMaxFee, cpc, createTx, mintConfig>>

bvars == <<walletsWithTokens, onChain, mintBps, mintMaxFee, amountLamports, bcount, bi,
           sourceIndex, destIndex, bpc>>

pvars == <<mintsLen, walletsLen, rpcsLen, pConcurrency, operations, opBatches, pi,
           spawned, exitCode, summary, ppc>>

vars == <<xvars, hvars, cvars, bvars, pvars, reports>>

\* -------------------------------------------------------- fee calculation
\* (a slip of the cap guard: maxFee = 0 treated as a cap of zero)
FeeExplicitZeroCap(amt, bps, cap) ==
  LET numerator == amt * bps
      raw == numerator \div BasisPointDenominator
  IN IF raw > cap THEN cap ELSE raw

\* check-token-fee-config.ts: numerator / denominator, capped when maxFee > 0
FeeExplicit(amt, bps, cap) ==
  LET numerator == amt * bps
      raw == numerator \div BasisPointDenominator
  IN IF cap > 0 /\ raw > cap THEN cap ELSE raw

\* transfer-checked.ts: the same calculation
FeeChecked(amt, bps, cap) ==
  LET numerator == amt * bps
      raw == numerator \div BasisPointDenominator
  IN IF cap > 0 /\ raw > cap THEN cap ELSE raw

\* check-swap-fees.ts: expectedFee, then actualFee
FeeSwap(amt, bps, cap) ==
  LET expectedFee == (amt * bps) \div BasisPointDenominator
  IN IF expectedFee > cap /\ cap > 0 THEN cap ELSE expectedFee

\* transfer-between-wallets.ts: fee shown after a transfer; maxFee is not used
FeeBetween(amt, bps, cap) ==
  (amt * bps) \div BasisPointDenominator

\* ---------------------------------------------------- transfer script runs
NoFeeArg == -1   \* createTransferCheckedInstruction carries no fee argument

\* no harvest script has run yet
RunIdle ==
  /\ running = "none" /\ runs = 0 /\ hpc = "idle"
  /\ batchSize = 1 /\ concurrency = 1 /\ dryRun = FALSE
  /\ retryCount = 0 /\ delays = <<>>
  /\ tokenAccounts = <<>> /\ batches = <<>> /\ i = 0
  /\ outcome = <<>> /\ applied = <<>>
  /\ successful = 0 /\ failed = 0
  /\ zeroBranch = FALSE
  /\ withdrawnAmount = Undefined /\ withdrawResult = "" /\ withdrawTxs = 0
  /\ runError = FALSE
  /\ harvestHistory = <<>>
  /\ harvestedNow = {} /\ quiet = TRUE

HarvestIdle ==
  /\ withheld = [a \in Accounts |-> 0]
  /\ pool = 0 /\ destBalance = 0 /\ totalFees = 0
  /\ RunIdle

\* no creation script runs
CreateIdle ==
  /\ cscript = "none" /\ cBps = 0 /\ cMaxFee = 0
  /\ cpc = "idle" /\ createTx = <<>> /\ mintConfig = <<>>

\* transfer-between-wallets does not run
BetweenIdle ==
  /\ walletsWithTokens = <<>> /\ onChain = <<>>
  /\ mintBps = 0 /\ mintMaxFee = 0 /\ amountLamports = 0 /\ bcount = 0
  /\ bi = 0 /\ sourceIndex = 0 /\ destIndex = 0 /\ bpc = "idle"

\* parallel-harvest does not run
ParallelIdle ==
  /\ mintsLen = 0 /\ walletsLen = 0 /\ rpcsLen = 0 /\ pConcurrency = 0
  /\ operations = <<>> /\ opBatches = <<>> /\ pi = 0
  /\ spawned = <<>> /\ exitCode = <<>> /\ summary = "" /\ ppc = "idle"

\* number of binary digits of n
RECURSIVE BitLength(_)
BitLength(n) == IF n = 0 THEN 0 ELSE 1 + BitLength(n \div 2)

\* the Number nearest to the integer n (round to nearest, ties to even): what
\* options.amount * 10 ** decimals holds when the exact product is n
ToNumber(n) ==
  IF BitLength(n) <= MantissaBits THEN n
  ELSE LET ulp == 2 ^ (BitLength(n) - MantissaBits)
           q == n \div ulp
           r == n % ulp
       IN IF 2 * r < ulp \/ (2 * r = ulp /\ q % 2 = 0)
            THEN q * ulp
            ELSE (q + 1) * ulp

XferInit ==
  /\ HarvestIdle /\ CreateIdle /\ BetweenIdle /\ ParallelIdle /\ reports = <<>>
  /\ script \in TransferScripts
  /\ requested \in RequestedAmounts
  /\ amount = ToNumber(requested)
  /\ hasFeeConfig \in BOOLEAN
  /\ feeBasisPoints \in BasisPoints
  /\ maxFee \in MaximumFees
  /\ sourceAmount \in SourceAmounts
  /\ tpc = "start"
  /\ fee = 0
  /\ feeCalculated = FALSE
  /\ sentTx = <<>>

XferInputsUnchanged ==
  UNCHANGED <<script, requested, amount, hasFeeConfig, feeBasisPoints, maxFee, sourceAmount>>

\* transfer-checked.ts: source account balance check
TC_CheckBalance ==
  /\ script = "checked" /\ tpc = "start"
  /\ tpc' = IF sourceAmount < amount THEN "exitInsufficient" ELSE "fee"
  /\ UNCHANGED <<fee, feeCalculated, sentTx>>
  /\ XferInputsUnchanged

\* transfer-checked.ts: fee calculation from the transfer fee config
TC_CalcFee ==
  /\ script = "checked" /\ tpc = "fee"
  /\ IF hasFeeConfig
       THEN fee' = FeeChecked(amount, feeBasisPoints, maxFee) /\ feeCalculated' = TRUE
       ELSE UNCHANGED <<fee, feeCalculated>>
  /\ tpc' = "send"
  /\ UNCHANGED sentTx
  /\ XferInputsUnchanged

\* transfer-checked.ts: createTransferCheckedWithFeeInstruction(..., BigInt(0), ...)
TC_Send ==
  /\ script = "checked" /\ tpc = "send"
  /\ sentTx' = Append(sentTx, [amount |-> amount, fee |-> 0])
  /\ tpc' = "sending"
  /\ UNCHANGED <<fee, feeCalculated>>
  /\ XferInputsUnchanged

\* check-token-fee-config.ts: fee calculation and balance check inside
\* if (transferFeeConfig)
EF_CalcFee ==
  /\ script = "explicit" /\ tpc = "start"
  /\ IF hasFeeConfig
       THEN LET f == FeeExplicit(amount, feeBasisPoints, maxFee)
            IN /\ fee' = f
               /\ feeCalculated' = TRUE
               /\ tpc' = IF sourceAmount < amount + f THEN "exitInsufficient" ELSE "send"
       ELSE /\ UNCHANGED <<fee, feeCalculated>>
            /\ tpc' = "send"
  /\ UNCHANGED sentTx
  /\ XferInputsUnchanged

\* check-token-fee-config.ts: createTransferCheckedWithFeeInstruction(..., fee, ...)
EF_Send ==
  /\ script = "explicit" /\ tpc = "send"
  /\ sentTx' = Append(sentTx, [amount |-> amount, fee |-> fee])
  /\ tpc' = "sending"
  /\ UNCHANGED <<fee, feeCalculated>>
  /\ XferInputsUnchanged

\* check-swap-fees.ts: one iteration of the transfer loop up to the submission
Swap_Send ==
  /\ script = "swap" /\ tpc = "start"
  /\ IF hasFeeConfig
       THEN LET actualFee == FeeSwap(amount, feeBasisPoints, maxFee)
            IN /\ fee' = actualFee
               /\ feeCalculated' = TRUE
               /\ sentTx' = Append(sentTx, [amount |-> amount, fee |-> actualFee])
               /\ tpc' = "sending"
       ELSE \* "This mint does not have a transfer fee extension"
            /\ tpc' = "exitNoConfig"
            /\ UNCHANGED <<fee, feeCalculated, sentTx>>
  /\ XferInputsUnchanged

\* transfer-between-wallets.ts: balance check, then createTransferCheckedInstruction
BW_Send ==
  /\ script = "between" /\ tpc = "start"
  /\ IF sourceAmount < amount
       THEN tpc' = "done" /\ UNCHANGED sentTx      \* "Skipping transfer"
       ELSE /\ sentTx' = Append(sentTx, [amount |-> amount, fee |-> NoFeeArg])
            /\ tpc' = "sending"
  /\ UNCHANGED <<fee, feeCalculated>>
  /\ XferInputsUnchanged

\* sendAndConfirmTransaction returns a signature; transfer-between-wallets.ts
\* then shows the fee when transferFeeBasisPoints > 0 (0 without token info)
XferConfirmed ==
  /\ tpc = "sending"
  /\ IF script = "between" /\ hasFeeConfig /\ feeBasisPoints > 0
       THEN fee' = FeeBetween(amount, feeBasisPoints, maxFee) /\ feeCalculated' = TRUE
       ELSE UNCHANGED <<fee, feeCalculated>>
  /\ tpc' = "done"
  /\ UNCHANGED sentTx
  /\ XferInputsUnchanged

\* sendAndConfirmTransaction throws
XferFailed ==
  /\ tpc = "sending"
  /\ tpc' = IF script \in {"explicit", "checked"} THEN "exitTxFailed" ELSE "done"
  /\ UNCHANGED <<fee, feeCalculated, sentTx>>
  /\ XferInputsUnchanged

XferNext ==
  \/ TC_CheckBalance /\ UNCHANGED <<hvars, cvars, bvars, pvars, reports>>
  \/ TC_CalcFee /\ UNCHANGED <<hvars, cvars, bvars, pvars, reports>>
  \/ TC_Send /\ UNCHANGED <<hvars, cvars, bvars, pvars, reports>>
  \/ EF_CalcFee /\ UNCHANGED <<hvars, cvars, bvars, pvars, reports>>
  \/ EF_Send /\ UNCHANGED <<hvars, cvars, bvars, pvars, reports>>
  \/ Swap_Send /\ UNCHANGED <<hvars, cvars, bvars, pvars, reports>>
  \/ BW_Send /\ UNCHANGED <<hvars, cvars, bvars, pvars, reports>>
  \/ XferConfirmed /\ UNCHANGED <<hvars, cvars, bvars, pvars, reports>>
  \/ XferFailed /\ UNCHANGED <<hvars, cvars, bvars, pvars, reports>>

XferSpec == XferInit /\ [][XferNext]_vars

\* ------------------------------------------------------------- helpers
Min(x, y) == IF x < y THEN x ELSE y

Range(s) == {s[k] : k \in DOMAIN s}

RECURSIVE SumOver(_, _)
\* sum of f[x] over the finite set S
SumOver(f, S) ==
  IF S = {} THEN 0
  ELSE LET x == CHOOSE y \in S : TRUE IN f[x] + SumOver(f, S \ {x})

\* accounts in ascending order of address, as a sequence
RECURSIVE SeqOf(_)
SeqOf(S) ==
  IF S = {} THEN <<>>
  ELSE LET x == CHOOSE y \in S : \A z \in S : y <= z IN <<x>> \o SeqOf(S \ {x})

\* (a slip of the chunk: the trailing shorter slice is dropped)
ChunkFullOnly(s, size) ==
  IF Len(s) = 0 \/ size < 1 THEN <<>>
  ELSE [k \in 1..(Len(s) \div size) |-> SubSeq(s, (k - 1) * size + 1, k * size)]

\* lodash chunk(array, size): slices of length size, the last one shorter;
\* [] when the array is empty or size < 1
Chunk(s, size) ==
  IF Len(s) = 0 \/ size < 1 THEN <<>>
  ELSE [k \in 1..((Len(s) + size - 1) \div size) |->
          SubSeq(s, (k - 1) * size + 1, Min(k * size, Len(s)))]

\* ------------------------------------------------------------- the ledger
\* a fee-bearing transfer to account a: the ledger withholds fee f in the
\* destination account
Transfer(a, f) ==
  /\ totalFees + f <= MaxTotalFees
  /\ withheld' = [withheld EXCEPT ![a] = @ + f]
  /\ totalFees' = totalFees + f
  /\ harvestedNow' = harvestedNow \ {a}
  /\ quiet' = FALSE
  /\ UNCHANGED <<pool, destBalance>>
  /\ UNCHANGED <<running, runs, hpc, options, discoverLocals, harvestLocals,
                 zeroBranch, withdrawLocals, runError, harvestHistory>>

\* (a slip of the harvest: the amounts are credited to the mint and left in
\* the accounts)
HarvestAppliedNoReset(accts) ==
  /\ pool' = pool + SumOver(withheld, accts)
  /\ harvestedNow' = harvestedNow \cup accts
  /\ UNCHANGED <<withheld, destBalance, totalFees, quiet>>

\* effect of a transaction of harvest instructions for the accounts accts:
\* each account's withheld amount moves to the mint
HarvestApplied(accts) ==
  /\ withheld' = [a \in Accounts |-> IF a \in accts THEN 0 ELSE withheld[a]]
  /\ pool' = pool + SumOver(withheld, accts)
  /\ harvestedNow' = harvestedNow \cup accts
  /\ UNCHANGED <<destBalance, totalFees, quiet>>

\* effect of createWithdrawWithheldTokensFromMintInstruction: the whole pool
\* moves to the destination
WithdrawApplied ==
  /\ destBalance' = destBalance + pool
  /\ pool' = 0
  /\ UNCHANGED <<withheld, totalFees, harvestedNow, quiet>>

\* ------------------------------------------------ harvest-fees (part_012)
\* (a slip of the filter: accounts without withheld fees are kept)
HasWithheldFeesAny(a) == withheld[a] >= 0

\* findAllTokenAccounts: withheldAmount && withheldAmount.withheldAmount > BigInt(0)
HasWithheldFees(a) == withheld[a] > 0

\* (a slip of the union: the specific account is pushed without the
\* tokenAccounts.some(...) test)
FindAllTokenAccountsNoDedup(scan) ==
  LET found == SeqOf({a \in scan : HasWithheldFees(a)})
  IN IF HasWithheldFees(SpecificAccount)
       THEN Append(found, SpecificAccount)
       ELSE found

\* findAllTokenAccounts: the accounts of the scan that have withheld fees,
\* then the specific account when it has withheld fees and is not in the list
FindAllTokenAccounts(scan) ==
  LET found == SeqOf({a \in scan : HasWithheldFees(a)})
  IN IF HasWithheldFees(SpecificAccount) /\ SpecificAccount \notin Range(found)
       THEN Append(found, SpecificAccount)
       ELSE found

\* a script starts: main of harvest-fees with its options, or main of
\* harvest-specific-account
StartRun(s, bs, c, dr) ==
  /\ hpc \in {"idle", "exit0", "exit1"}
  /\ runs < MaxRuns
  /\ running' = s
  /\ runs' = runs + 1
  /\ hpc' = IF s = "harvest-fees" THEN "discover" ELSE "hsaCheck"
  /\ batchSize' = bs /\ concurrency' = c /\ dryRun' = dr
  /\ retryCount' = 0 /\ delays' = <<>>
  /\ tokenAccounts' = <<>> /\ batches' = <<>> /\ i' = 0
  /\ outcome' = <<>> /\ applied' = <<>>
  /\ successful' = 0 /\ failed' = 0
  /\ zeroBranch' = FALSE
  /\ withdrawnAmount' = Undefined /\ withdrawResult' = "" /\ withdrawTxs' = 0
  /\ runError' = FALSE
  /\ harvestedNow' = {}
  /\ quiet' = TRUE
  /\ UNCHANGED <<ledger, harvestHistory>>

\* what getProgramAccounts may return: the accounts of the mint, with or
\* without the account that findAllTokenAccounts checks explicitly
Scans == {Accounts, Accounts \ {SpecificAccount}}

\* main: findAllTokenAccounts returns; scan is what getProgramAccounts found.
\* An empty list leads to the zero-accounts branch, otherwise harvestFeesToMint
\* starts with batches = chunk(tokenAccounts, batchSize)
HF_Discover(scan) ==
  /\ running = "harvest-fees" /\ hpc = "discover"
  /\ LET found == FindAllTokenAccounts(scan)
         bs == Chunk(found, batchSize)
     IN /\ tokenAccounts' = found
        /\ IF Len(found) = 0
             THEN /\ hpc' = "zeroCheck"
                  /\ zeroBranch' = TRUE
                  /\ UNCHANGED <<batches, outcome, applied>>
             ELSE /\ hpc' = "harvest"
                  /\ batches' = bs
                  /\ outcome' = [k \in DOMAIN bs |-> "pending"]
                  /\ applied' = [k \in DOMAIN bs |-> FALSE]
                  /\ UNCHANGED zeroBranch
  /\ retryCount' = 0 /\ delays' = <<>>
  /\ UNCHANGED <<i, successful, failed>>
  /\ UNCHANGED <<ledger, running, runs, options, withdrawLocals, runError,
                 harvestHistory, history>>

\* findAllTokenAccounts: const delay = Math.pow(2, retryCount) * 500
BackoffDelay(rc) == (2 ^ rc) * BackoffBase

\* findAllTokenAccounts, catch: getProgramAccounts threw.  retryCount++; when
\* retryCount >= maxRetries the error is rethrown, main reports it and
\* continues with no accounts; otherwise the delay is waited and the loop
\* tries again
HF_DiscoverFails ==
  /\ running = "harvest-fees" /\ hpc = "discover"
  /\ LET rc == retryCount + 1
     IN IF rc >= maxRetries
          THEN /\ hpc' = "zeroCheck"
               /\ zeroBranch' = TRUE
               /\ runError' = TRUE
               /\ retryCount' = 0 /\ delays' = <<>>
          ELSE /\ retryCount' = rc
               /\ delays' = Append(delays, BackoffDelay(rc))
               /\ UNCHANGED <<hpc, zeroBranch, runError>>
  /\ UNCHANGED <<ledger, running, runs, options, harvestLocals, withdrawLocals,
                 harvestHistory, history>>

\* main, zero-accounts branch: withdraw when the mint itself holds withheld
\* fees, otherwise process.exit(0)
HF_ZeroCheck ==
  /\ running = "harvest-fees" /\ hpc = "zeroCheck"
  /\ IF pool > 0
       THEN withdrawnAmount' = pool /\ hpc' = "withdrawCall"
       ELSE UNCHANGED withdrawnAmount /\ hpc' = "exit0"
  /\ UNCHANGED <<withdrawResult, withdrawTxs>>
  /\ UNCHANGED <<ledger, running, runs, options, discoverLocals, harvestLocals, zeroBranch,
                 runError, harvestHistory, history>>

\* (a slip of the slice: every remaining batch is submitted at once)
GroupUnbounded(i0) == {k \in DOMAIN batches : i0 < k}

\* batches of the concurrency group that starts at index i0 (0-based):
\* batches.slice(i, i + concurrency)
Group(i0) == {k \in DOMAIN batches : i0 < k /\ k <= i0 + concurrency}

\* harvestFeesToMint: one iteration of the for loop starts; map() submits every
\* batch of currentBatches; when i has passed the last batch the function
\* returns its tally
HF_GroupStart ==
  /\ running = "harvest-fees" /\ hpc = "harvest"
  /\ IF i < Len(batches)
       THEN /\ outcome' = [k \in DOMAIN batches |->
                             IF k \in Group(i) THEN "inflight" ELSE outcome[k]]
            /\ hpc' = "awaitGroup"
       ELSE /\ hpc' = "withdrawRead"
            /\ UNCHANGED outcome
  /\ UNCHANGED <<tokenAccounts, batches, i, applied, successful, failed>>
  /\ UNCHANGED <<ledger, running, runs, options, discoverLocals, zeroBranch, withdrawLocals,
                 runError, harvestHistory, history>>

\* (a slip of the loop: only the first account of the batch gets an instruction)
BatchInstructionsFirstOnly(batch) == {batch[1]}

\* harvestFeesToMint: one createHarvestWithheldTokensToMintInstruction per
\* tokenAccount of the batch
BatchInstructions(batch) == Range(batch)

\* (a slip of the tally: a failed batch counted as one account)
TallyPerBatch(count, batch) == count + 1

\* successful += batch.length / failed += batch.length
Tally(count, batch) == count + Len(batch)

\* (a slip of the branch: the transaction is sent in a dry run too)
CommitsAlways(dr) == TRUE

\* if (dryRun) simulateTransaction else sendAndConfirmTransaction
Commits(dr) == ~dr

\* one batch of the group settles.  Committed mode: sendAndConfirmTransaction
\* returns or throws.  Dry run: simulateTransaction reports no error or an error
HF_BatchSettles(k, res) ==
  /\ running = "harvest-fees" /\ hpc = "awaitGroup"
  /\ k \in DOMAIN batches /\ outcome[k] = "inflight"
  /\ IF ~Commits(dryRun)
       THEN /\ res \in {"confirmed", "rejected"}
            /\ UNCHANGED <<ledger, applied, history>>
       ELSE IF res \in {"confirmed", "ambiguous"}
              THEN /\ HarvestApplied(BatchInstructions(batches[k]))
                   /\ applied' = [applied EXCEPT ![k] = TRUE]
              ELSE UNCHANGED <<ledger, applied, history>>
  /\ IF res = "confirmed"
       THEN /\ successful' = Tally(successful, batches[k])
            /\ outcome' = [outcome EXCEPT ![k] = "ok"]
            /\ UNCHANGED <<failed, runError>>
       ELSE /\ failed' = Tally(failed, batches[k])
            /\ outcome' = [outcome EXCEPT ![k] = "failed"]
            /\ runError' = TRUE
            /\ UNCHANGED successful
  /\ UNCHANGED <<tokenAccounts, batches, i>>
  /\ UNCHANGED <<running, runs, hpc, options, discoverLocals, zeroBranch, withdrawLocals,
                 harvestHistory>>

\* (a slip of the wait: Promise.race in place of Promise.all)
GroupSettledAny(i0) ==
  \E k \in Group(i0) : outcome[k] \in {"ok", "failed"}

\* Promise.all(batchPromises) resolves: every promise of the group has
\* settled (the try/catch of a batch never lets its promise reject)
GroupSettled(i0) ==
  \A k \in Group(i0) : outcome[k] \in {"ok", "failed"}

\* await Promise.all(batchPromises) returns, i += concurrency
HF_GroupEnd ==
  /\ running = "harvest-fees" /\ hpc = "awaitGroup"
  /\ GroupSettled(i)
  /\ i' = i + concurrency
  /\ hpc' = "harvest"
  /\ UNCHANGED <<tokenAccounts, batches, outcome, applied, successful, failed>>
  /\ UNCHANGED <<ledger, running, runs, options, discoverLocals, zeroBranch, withdrawLocals,
                 runError, harvestHistory, history>>

\* main after harvestFeesToMint: getMint, withdrawnAmount = the pool read;
\* when getMint throws the error is reported and the results are saved
HF_WithdrawRead(readOk) ==
  /\ running = "harvest-fees" /\ hpc = "withdrawRead"
  /\ IF readOk
       THEN /\ withdrawnAmount' = pool
            /\ hpc' = "withdrawCall"
            /\ UNCHANGED runError
       ELSE /\ runError' = TRUE
            /\ hpc' = "save"
            /\ UNCHANGED withdrawnAmount
  /\ UNCHANGED <<withdrawResult, withdrawTxs>>
  /\ UNCHANGED <<ledger, running, runs, options, discoverLocals, harvestLocals, zeroBranch,
                 harvestHistory, history>>

\* (a slip of the check: the withdraw is submitted whatever the pool holds)
NothingToWithdrawNever(poolRead) == FALSE

\* withdrawFeesFromMint: transferFeeConfig.withheldAmount === BigInt(0)
NothingToWithdraw(poolRead) == poolRead = 0

\* withdrawFeesFromMint up to the submission: reads the mint, returns
\* 'No withheld fees to withdraw' on an empty pool, otherwise submits (or
\* simulates) the withdraw transaction
HF_WithdrawCall ==
  /\ running = "harvest-fees" /\ hpc = "withdrawCall"
  /\ IF NothingToWithdraw(pool)
       THEN /\ withdrawResult' = "No withheld fees to withdraw"
            /\ hpc' = "save"
            /\ UNCHANGED withdrawTxs
       ELSE /\ hpc' = "withdrawing"
            /\ withdrawTxs' = IF Commits(dryRun) THEN withdrawTxs + 1 ELSE withdrawTxs
            /\ UNCHANGED withdrawResult
  /\ UNCHANGED withdrawnAmount
  /\ UNCHANGED <<ledger, running, runs, options, discoverLocals, harvestLocals, zeroBranch,
                 runError, harvestHistory, history>>

\* withdrawFeesFromMint: the submission (or simulation) settles.  A thrown
\* error is rethrown and caught by main: in the zero-accounts branch nothing is
\* saved, otherwise the results are saved with withdrawResult = ''
HF_WithdrawSettles(res) ==
  /\ running = "harvest-fees" /\ hpc = "withdrawing"
  /\ IF ~Commits(dryRun)
       THEN /\ res \in {"confirmed", "rejected"}
            /\ UNCHANGED <<ledger, history>>
       ELSE IF res \in {"confirmed", "ambiguous"}
              THEN WithdrawApplied
              ELSE UNCHANGED <<ledger, history>>
  /\ IF res = "confirmed"
       THEN /\ withdrawResult' = IF dryRun THEN "Simulation successful" ELSE "signature"
            /\ hpc' = "save"
            /\ UNCHANGED runError
       ELSE /\ runError' = TRUE
            /\ hpc' = IF zeroBranch THEN "exit0" ELSE "save"
            /\ UNCHANGED withdrawResult
  /\ UNCHANGED <<withdrawnAmount, withdrawTxs>>
  /\ UNCHANGED <<running, runs, options, discoverLocals, harvestLocals, zeroBranch, harvestHistory>>

\* JSON.stringify(harvestHistory, null, 2): a bigint value makes it throw a
\* TypeError; an undefined value is left out of the record
Serializable(record) == record.withdrawnAmount = Undefined

\* saveHarvestResults: the record is pushed onto the history read from the
\* file and the history is written back.  When JSON.stringify throws nothing
\* is written: in the zero-accounts branch the inner catch of main reports the
\* error and main exits with 0, otherwise the outer catch exits with 1
HF_Save ==
  /\ running = "harvest-fees" /\ hpc = "save"
  /\ LET record == [accountsProcessed |-> IF zeroBranch THEN 0 ELSE Len(tokenAccounts),
                    successful |-> IF zeroBranch THEN 0 ELSE successful,
                    failed |-> IF zeroBranch THEN 0 ELSE failed,
                    withdrawnAmount |-> withdrawnAmount,
                    withdrawSignature |-> withdrawResult]
     IN IF Serializable(record)
          THEN /\ harvestHistory' = Append(harvestHistory, record)
               /\ hpc' = "exit0"
               /\ UNCHANGED runError
          ELSE /\ UNCHANGED harvestHistory
               /\ hpc' = IF zeroBranch THEN "exit0" ELSE "exit1"
               /\ runError' = TRUE
  /\ UNCHANGED <<ledger, running, runs, options, discoverLocals, harvestLocals, zeroBranch,
                 withdrawLocals, history>>

\* ------------------------------------------- harvest-specific-account.ts
\* main: reads the token account; harvests only when it has withheld tokens
HSA_Check(a) ==
  /\ running = "harvest-specific-account" /\ hpc = "hsaCheck"
  /\ tokenAccounts' = <<a>>
  /\ IF HasWithheldFees(a)
       THEN /\ batches' = << <<a>> >>
            /\ outcome' = <<"inflight">>
            /\ applied' = <<FALSE>>
            /\ hpc' = "hsaHarvesting"
       ELSE \* 'Token account has no withheld tokens'
            /\ hpc' = "exit0"
            /\ UNCHANGED <<batches, outcome, applied>>
  /\ UNCHANGED <<i, successful, failed>>
  /\ UNCHANGED <<ledger, running, runs, options, discoverLocals, zeroBranch, withdrawLocals,
                 runError, harvestHistory, history>>

\* main: the harvest transaction settles; after a success the mint is read and
\* the withdraw is submitted only when the mint holds withheld tokens
HSA_HarvestSettles(res) ==
  /\ running = "harvest-specific-account" /\ hpc = "hsaHarvesting"
  /\ IF res \in {"confirmed", "ambiguous"}
       THEN /\ HarvestApplied({tokenAccounts[1]})
            /\ applied' = <<TRUE>>
       ELSE UNCHANGED <<ledger, applied, history>>
  /\ IF res = "confirmed"
       THEN /\ outcome' = <<"ok">>
            /\ IF pool' > 0
                 THEN hpc' = "hsaWithdrawing" /\ withdrawTxs' = withdrawTxs + 1
                 ELSE hpc' = "exit0" /\ UNCHANGED withdrawTxs
            /\ UNCHANGED runError
       ELSE /\ outcome' = <<"failed">>
            /\ runError' = TRUE
            /\ hpc' = "exit0"
            /\ UNCHANGED withdrawTxs
  /\ UNCHANGED <<tokenAccounts, batches, i, successful, failed>>
  /\ UNCHANGED <<withdrawnAmount, withdrawResult>>
  /\ UNCHANGED <<running, runs, options, discoverLocals, zeroBranch, harvestHistory>>

\* main: the withdraw transaction settles
HSA_WithdrawSettles(res) ==
  /\ running = "harvest-specific-account" /\ hpc = "hsaWithdrawing"
  /\ IF res \in {"confirmed", "ambiguous"}
       THEN WithdrawApplied
       ELSE UNCHANGED <<ledger, history>>
  /\ IF res = "confirmed"
       THEN withdrawResult' = "signature" /\ UNCHANGED runError
       ELSE runError' = TRUE /\ UNCHANGED withdrawResult
  /\ hpc' = "exit0"
  /\ UNCHANGED <<withdrawnAmount, withdrawTxs>>
  /\ UNCHANGED <<running, runs, options, discoverLocals, harvestLocals, zeroBranch, harvestHistory>>

\* ------------------------------------------------------ the harvest model
\* no transfer script runs
XferIdle ==
  /\ script = "explicit" /\ requested = 0 /\ amount = 0 /\ hasFeeConfig = FALSE
  /\ feeBasisPoints = 0 /\ maxFee = 0 /\ sourceAmount = 0
  /\ tpc = "start" /\ fee = 0 /\ feeCalculated = FALSE /\ sentTx = <<>>

Init ==
  /\ HarvestIdle /\ CreateIdle /\ BetweenIdle /\ ParallelIdle /\ reports = <<>>
  /\ XferIdle

Next ==
  \/ /\ \E a \in Accounts, f \in 1..MaxTransferFee : Transfer(a, f)
     /\ UNCHANGED <<xvars, cvars, bvars, pvars, reports>>
  \/ /\ \E s \in HarvestScripts, bs \in BatchSizes, c \in Concurrencies,
           dr \in BOOLEAN : StartRun(s, bs, c, dr)
     /\ UNCHANGED <<xvars, cvars, bvars, pvars, reports>>
  \/ /\ \E scan \in Scans : HF_Discover(scan)
     /\ UNCHANGED <<xvars, cvars, bvars, pvars, reports>>
  \/ HF_DiscoverFails /\ UNCHANGED <<xvars, cvars, bvars, pvars, reports>>
  \/ HF_ZeroCheck /\ UNCHANGED <<xvars, cvars, bvars, pvars, reports>>
  \/ HF_GroupStart /\ UNCHANGED <<xvars, cvars, bvars, pvars, reports>>
  \/ /\ \E k \in DOMAIN batches, res \in TxOutcomes : HF_BatchSettles(k, res)
     /\ UNCHANGED <<xvars, cvars, bvars, pvars, reports>>
  \/ HF_GroupEnd /\ UNCHANGED <<xvars, cvars, bvars, pvars, reports>>
  \/ /\ \E readOk \in BOOLEAN : HF_WithdrawRead(readOk)
     /\ UNCHANGED <<xvars, cvars, bvars, pvars, reports>>
  \/ HF_WithdrawCall /\ UNCHANGED <<xvars, cvars, bvars, pvars, reports>>
  \/ /\ \E res \in TxOutcomes : HF_WithdrawSettles(res)
     /\ UNCHANGED <<xvars, cvars, bvars, pvars, reports>>
  \/ HF_Save /\ UNCHANGED <<xvars, cvars, bvars, pvars, reports>>
  \/ /\ \E a \in Accounts : HSA_Check(a)
     /\ UNCHANGED <<xvars, cvars, bvars, pvars, reports>>
  \/ /\ \E res \in TxOutcomes : HSA_HarvestSettles(res)
     /\ UNCHANGED <<xvars, cvars, bvars, pvars, reports>>
  \/ /\ \E res \in TxOutcomes : HSA_WithdrawSettles(res)
     /\ UNCHANGED <<xvars, cvars, bvars, pvars, reports>>

Spec == Init /\ [][Next]_vars

\* ------------------------------- a dry run followed by a committed run
\* what a run of harvest-fees has reported when it ends: the tally of
\* harvestFeesToMint and the amount and result of the withdraw
RunReport ==
  [dryRun |-> dryRun',
   accountsProcessed |-> Len(tokenAccounts'),
   successful |-> successful',
   failed |-> failed',
   withdrawnAmount |-> withdrawnAmount',
   withdrawResult |-> withdrawResult']

\* step A of a run, with the report of the run kept when the step ends it
Reporting(A) ==
  /\ A
  /\ reports' = IF hpc \notin {"exit0", "exit1"} /\ hpc' \in {"exit0", "exit1"}
                  THEN Append(reports, RunReport)
                  ELSE reports

\* a ledger that holds withheld fees in accounts and in the mint
DryRunPairInit ==
  /\ withheld \in [Accounts -> 0..MaxTransferFee]
  /\ pool \in 0..MaxTransferFee
  /\ destBalance = 0
  /\ totalFees = SumOver(withheld, Accounts) + pool
  /\ RunIdle /\ XferIdle /\ CreateIdle /\ BetweenIdle /\ ParallelIdle /\ reports = <<>>

\* harvest-fees is started with --dry-run, and after it has ended it is
\* started again without --dry-run and with the same options
DryRunPairStart ==
  \E bs \in BatchSizes, c \in Concurrencies :
    /\ runs = 1 => (bs = batchSize /\ c = concurrency)
    /\ StartRun("harvest-fees", bs, c, runs = 0)

DryRunPairNext ==
  \/ Reporting(DryRunPairStart) /\ UNCHANGED <<xvars, cvars, bvars, pvars>>
  \/ Reporting(\E scan \in Scans : HF_Discover(scan)) /\ UNCHANGED <<xvars, cvars, bvars, pvars>>
  \/ Reporting(HF_DiscoverFails) /\ UNCHANGED <<xvars, cvars, bvars, pvars>>
  \/ Reporting(HF_ZeroCheck) /\ UNCHANGED <<xvars, cvars, bvars, pvars>>
  \/ Reporting(HF_GroupStart) /\ UNCHANGED <<xvars, cvars, bvars, pvars>>
  \/ Reporting(\E k \in DOMAIN batches, res \in TxOutcomes : HF_BatchSettles(k, res))
       /\ UNCHANGED <<xvars, cvars, bvars, pvars>>
  \/ Reporting(HF_GroupEnd) /\ UNCHANGED <<xvars, cvars, bvars, pvars>>
  \/ Reporting(\E readOk \in BOOLEAN : HF_WithdrawRead(readOk)) /\ UNCHANGED <<xvars, cvars, bvars, pvars>>
  \/ Reporting(HF_WithdrawCall) /\ UNCHANGED <<xvars, cvars, bvars, pvars>>
  \/ Reporting(\E res \in TxOutcomes : HF_WithdrawSettles(res)) /\ UNCHANGED <<xvars, cvars, bvars, pvars>>
  \/ Reporting(HF_Save) /\ UNCHANGED <<xvars, cvars, bvars, pvars>>

DryRunPairSpec == DryRunPairInit /\ [][DryRunPairNext]_vars

\* ------------------------------------------------- token creation scripts
\* create-token-with-withheld-fees (unnamed/part_004), create-token-from-config.ts
\* (with loadTokenConfig, unnamed/part_000), create-token-with-harvestable-fees.ts
CreateScripts == {"withheld-fees", "from-config", "harvestable-fees"}
\* values of --fee-basis-points / feeBasisPoints of the configuration file
FeeBasisPointOptions == {-1, 0, 100, BasisPointDenominator, BasisPointDenominator + 1}
\* values of --max-fee / maxFee of the configuration file, in tokens
MaxFeeOptions == {-1, 0, 1}
\* const decimals = 9
decimals == 9
\* the instruction encoder throws
EncodeThrows == -1

CreateInit ==
  /\ HarvestIdle /\ XferIdle /\ BetweenIdle /\ ParallelIdle /\ reports = <<>>
  /\ cscript \in CreateScripts
  /\ cBps \in FeeBasisPointOptions
  /\ cMaxFee \in MaxFeeOptions
  /\ cpc = "start"
  /\ createTx = <<>>
  /\ mintConfig = <<>>

\* loadTokenConfig: config.feeBasisPoints = config.feeBasisPoints || 0
DefaultZero(x) == IF x = 0 THEN 0 ELSE x

\* BigInt(maxFee * 10 ** decimals)
MaxFeeInBaseUnits(tokens) == tokens * (10 ^ decimals)

\* the u64 field of the instruction: a value >= 0 is written as it is; for a
\* negative bigint the encoder either throws or writes the magnitude,
\* depending on the build of the encoding library
EncodeU64(v) == IF v >= 0 THEN {v} ELSE {EncodeThrows, -v}

\* main of a creation script up to the submission: the fee parameters are
\* taken from the options (or the configuration file) without any range
\* check and passed to createInitializeTransferFeeConfigInstruction; enc is
\* what the encoder makes of maximumFee.  A negative feeBasisPoints does not
\* fit the u16 field: the encoder throws and the script exits with 1
CS_Submit ==
  /\ cpc = "start"
  /\ LET bps == IF cscript = "from-config" THEN DefaultZero(cBps) ELSE cBps
         mf == MaxFeeInBaseUnits(IF cscript = "from-config"
                                   THEN DefaultZero(cMaxFee) ELSE cMaxFee)
     IN \E enc \in EncodeU64(mf) :
          IF bps < 0 \/ enc = EncodeThrows
            THEN cpc' = "exit1" /\ UNCHANGED createTx
            ELSE /\ createTx' = <<[bps |-> bps, maximumFee |-> enc]>>
                 /\ cpc' = "sending"
  /\ UNCHANGED <<cscript, cBps, cMaxFee, mintConfig>>

\* the token program initialises a fee configuration only when its basis
\* points do not exceed 10000
LedgerAccepts(cfg) == cfg.bps <= BasisPointDenominator

\* sendAndConfirmTransaction settles: the mint exists with the submitted fee
\* configuration when the ledger applied the transaction
CS_Settles(res) ==
  /\ cpc = "sending"
  /\ res \in {"confirmed", "ambiguous"} => LedgerAccepts(createTx[1])
  /\ mintConfig' = IF res \in {"confirmed", "ambiguous"} THEN createTx ELSE mintConfig
  /\ cpc' = IF res = "confirmed" THEN "done" ELSE "exit1"
  /\ UNCHANGED <<cscript, cBps, cMaxFee, createTx>>

CreateNext ==
  \/ CS_Submit /\ UNCHANGED <<xvars, hvars, bvars, pvars, reports>>
  \/ /\ \E res \in TxOutcomes : CS_Settles(res)
     /\ UNCHANGED <<xvars, hvars, bvars, pvars, reports>>

CreateSpec == CreateInit /\ [][CreateNext]_vars

\* ------------------------------------------------------------ claims C1-C5

\* C1: every script that computes a transfer fee yields
\* floor(grossAmount * feeBasisPoints / 10000), replaced by maximumFee when
\* maximumFee > 0 and that value exceeds maximumFee.
C1_FeeIsCappedFloor ==
  feeCalculated =>
    LET raw == (amount * feeBasisPoints) \div 10000
    IN fee = IF maxFee > 0 /\ raw > maxFee THEN maxFee ELSE raw

\* C2: with maximumFee = 0 the fee is never capped: at feeBasisPoints = 10000
\* the computed fee equals the gross amount.
C2_ZeroMaximumFeeNeverCaps ==
  (feeCalculated /\ maxFee = 0 /\ feeBasisPoints = 10000) => fee = amount

C2_Witness ==
  /\ script = "explicit" /\ feeCalculated
  /\ maxFee = 0 /\ feeBasisPoints = 10000
  /\ amount = MaxAmount /\ fee = MaxAmount

\* C3: in every transfer script that performs the pre-flight balance check of
\* a fee-bearing transfer, the check passes if and only if
\* sourceBalance >= grossAmount + fee.
C3_BalanceCheckIffGrossPlusFee ==
  (script \in {"explicit", "checked"} /\ hasFeeConfig) =>
    /\ tpc \in {"send", "sending", "done", "exitTxFailed"}
         => sourceAmount >= amount + fee
    /\ tpc = "exitInsufficient" => sourceAmount < amount + fee

\* C4: when the source balance is below grossAmount + fee the transfer is
\* rejected locally and no transfer transaction is submitted.
C4_InsufficientNeverSubmitted ==
  (script \in {"explicit", "checked"} /\ feeCalculated
     /\ sourceAmount < amount + fee) => sentTx = <<>>

\* C5: every transfer submitted by transfer-checked carries the fee the script
\* calculated as the fee argument of createTransferCheckedWithFeeInstruction.
C5_CheckedCarriesCalculatedFee ==
  (script = "checked" /\ sentTx # <<>>) => sentTx[1].fee = fee

\* ----------------------------------------------------------- claims C6-C10
SumWithheld == SumOver(withheld, Accounts)

\* number of accounts in the batches of index set S
AccountsIn(S) == SumOver([k \in DOMAIN batches |-> Len(batches[k])], S)

HarvestReturned ==
  /\ running = "harvest-fees" /\ ~zeroBranch
  /\ hpc \in {"withdrawRead", "withdrawCall", "withdrawing", "save", "exit0", "exit1"}

\* C6: at every step account withheld amounts + mint pool + amount withdrawn
\* equals the total fees withheld so far; and after transfers followed by a
\* harvest of all accounts and a withdraw, the destination has received the
\* sum of the fees withheld by all those transfers.
C6_RoundTripConservation ==
  /\ SumWithheld + pool + destBalance = totalFees
  /\ ( /\ HarvestReturned /\ ~dryRun /\ quiet
       /\ \A a \in Accounts : a \in Range(tokenAccounts) \/ withheld[a] = 0
       /\ successful = Len(tokenAccounts)
       /\ withdrawResult = "signature" )
     => destBalance = totalFees

C6_Witness ==
  /\ HarvestReturned /\ ~dryRun /\ quiet /\ hpc \in {"exit0", "exit1"}
  /\ successful = Len(tokenAccounts) /\ withdrawResult = "signature"
  /\ Len(tokenAccounts) >= 2 /\ Len(batches[1]) = 2
  /\ destBalance = totalFees /\ totalFees >= 2

\* accounts that held no withheld amount when the run started and have received
\* no transfer since: this run's harvest of them is a repeated harvest
CleanSinceStart == {a \in Accounts : withheld[a] = 0 /\ a \notin harvestedNow}

\* C7: harvesting an account again with no transfer to it since its last
\* harvest is a no-op: its withheld amount stays 0, no harvest instruction for
\* it is submitted (so nothing moves into the pool on its behalf), and no
\* error is reported.
C7_SecondHarvestNoOp ==
  \A a \in CleanSinceStart :
    /\ \A k \in DOMAIN batches : a \notin Range(batches[k])
    /\ (running = "harvest-specific-account" /\ tokenAccounts = <<a>>)
         => (~runError /\ withdrawTxs = 0 /\ hpc = "exit0")
    /\ (running = "harvest-fees" /\ CleanSinceStart = Accounts /\ hpc # "discover")
         => (tokenAccounts = <<>> /\ successful = 0 /\ failed = 0)

C7_Witness ==
  /\ runs = 2 /\ running = "harvest-fees" /\ hpc = "exit0" /\ quiet
  /\ destBalance = totalFees /\ totalFees > 0
  /\ tokenAccounts = <<>> /\ ~runError

\* C8: a committed withdraw leaves the mint pool at 0, and a withdraw issued
\* while the pool is still empty reports that there is nothing to withdraw,
\* submits no transaction, raises no error and leaves the destination balance
\* unchanged.
C8_WithdrawDrainsOnce ==
  /\ [][(hpc \in {"withdrawing", "hsaWithdrawing"} /\ withdrawResult' = "signature")
          => pool' = 0]_vars
  /\ [][(pool = 0 /\ hpc = "withdrawCall" /\ hpc' # hpc) =>
          /\ hpc' = "save"
          /\ withdrawResult' = "No withheld fees to withdraw"
          /\ withdrawTxs' = withdrawTxs
          /\ runError' = runError
          /\ destBalance' = destBalance]_vars

C8_Witness ==
  /\ runs = 2 /\ destBalance > 0 /\ pool = 0
  /\ running = "harvest-fees" /\ hpc = "save"
  /\ withdrawResult = "No withheld fees to withdraw"
  /\ withdrawTxs = 0

\* C9: whatever subset of the harvest batches fails, every other batch is
\* still submitted and counted: successful is the number of accounts in the
\* batches whose submission returned, failed the number of accounts in the
\* batches whose submission threw, and no batch is left out when
\* harvestFeesToMint returns.
C9_BatchFailureIsolation ==
  running = "harvest-fees" =>
    /\ successful = AccountsIn({k \in DOMAIN batches : outcome[k] = "ok"})
    /\ failed = AccountsIn({k \in DOMAIN batches : outcome[k] = "failed"})
    /\ HarvestReturned => \A k \in DOMAIN batches : outcome[k] \in {"ok", "failed"}

C9_Witness ==
  /\ HarvestReturned /\ hpc = "withdrawRead"
  /\ outcome = <<"failed", "ok">>
  /\ Len(batches[1]) = 2
  /\ successful = 1 /\ failed = 2

\* C10: each harvest batch is atomic: once it has settled, either every
\* account of the batch was harvested and the batch is counted successful, or
\* no account of it changed and the batch is counted failed.
C10_BatchAtomic ==
  (running = "harvest-fees" /\ ~dryRun) =>
    \A k \in DOMAIN batches :
      /\ outcome[k] = "ok" => applied[k]
      /\ outcome[k] = "failed" => ~applied[k]

\* ---------------------------------------------------------- claims C11-C14
\* the batches laid end to end
RECURSIVE Flatten(_)
Flatten(bs) == IF bs = <<>> THEN <<>> ELSE Head(bs) \o Flatten(Tail(bs))

\* harvestFeesToMint has been entered by this run
HarvestEntered ==
  /\ running = "harvest-fees" /\ ~zeroBranch
  /\ hpc \notin {"idle", "discover"}

\* C11: harvestFeesToMint partitions the account list into batches: every
\* input account is in exactly one batch, in input order; every batch holds
\* at least 1 and at most batchSize accounts; every batch but the last holds
\* exactly batchSize.
C11_ChunkPartition ==
  HarvestEntered =>
    /\ Flatten(batches) = tokenAccounts
    /\ \A k \in DOMAIN batches :
         /\ 1 <= Len(batches[k]) /\ Len(batches[k]) <= batchSize
         /\ k < Len(batches) => Len(batches[k]) = batchSize

InFlight == {k \in DOMAIN batches : outcome[k] = "inflight"}

C13_GroupOrdering ==
  /\ [][(running = "harvest-fees" /\ hpc = "harvest" /\ hpc' = "awaitGroup") =>
          /\ \A j \in DOMAIN batches : j <= i => outcome[j] \in {"ok", "failed"}
          /\ \A k \in DOMAIN batches :
               (outcome[k] # "inflight" /\ outcome'[k] = "inflight") => k > i]_vars
  /\ [][(running = "harvest-fees" /\ hpc = "awaitGroup") =>
          \A k \in DOMAIN batches : k > i + concurrency => outcome'[k] = "pending"]_vars
  /\ []((running = "harvest-fees" /\ hpc = "awaitGroup"
          /\ \A k \in Group(i) : outcome[k] \in {"ok", "failed"})
          => ENABLED HF_GroupEnd)
  /\ []((running = "harvest-fees" /\ hpc = "harvest" /\ i < Len(batches))
          => ENABLED HF_GroupStart)

C13_Witness ==
  /\ running = "harvest-fees" /\ concurrency = 2 /\ i = 2
  /\ Len(batches) = 3
  /\ outcome[1] = "failed" /\ outcome[2] = "ok" /\ outcome[3] = "inflight"

\* C14: a dry run commits nothing: no step of a run in dry-run mode changes
\* an account's withheld amount, the mint pool or the destination balance (the
\* only changes while it runs are the fees withheld by other parties'
\* transfers), so after it ends they are what they were before it.
C14_DryRunCommitsNothing ==
  [][(running = "harvest-fees" /\ dryRun /\ runs' = runs /\ totalFees' = totalFees)
       => (withheld' = withheld /\ pool' = pool /\ destBalance' = destBalance)]_vars

C14_Witness ==
  /\ running = "harvest-fees" /\ dryRun /\ hpc \in {"exit0", "exit1"}
  /\ successful >= 1 /\ failed = 0
  /\ withdrawResult = "Simulation successful"
  /\ pool > 0
  /\ \A a \in Range(tokenAccounts) : withheld[a] > 0

\* --------------------------------------------------------------- claim C15
\* the two runs met no failing ledger call and found the same accounts
ComparableReports ==
  /\ Len(reports) = 2
  /\ reports[1].dryRun /\ ~reports[2].dryRun
  /\ reports[1].accountsProcessed = reports[2].accountsProcessed
  /\ \A n \in 1..2 : reports[n].failed = 0 /\ reports[n].withdrawResult # ""

\* C15: started from the same ledger state, a dry run of harvest followed by
\* withdraw reports the same successful count, failed count and withdrawn
\* amount as the committed run.
C15_DryRunReportsSame ==
  ComparableReports =>
    /\ reports[1].successful = reports[2].successful
    /\ reports[1].failed = reports[2].failed
    /\ reports[1].withdrawnAmount = reports[2].withdrawnAmount

\* ---------------------------------------------------------- claims C16-C17
\* C16: a ledger call that fails with a transient error is retried up to 3
\* times, after waits of 500 ms, 1000 ms and 2000 ms, and is reported failed
\* only after the last retry has failed.
C16_RetryBackoff ==
  /\ [](\A n \in DOMAIN delays : delays[n] = 500 * (2 ^ (n - 1)))
  /\ [](Len(delays) <= 3)
  /\ [][(running = "harvest-fees" /\ hpc = "discover" /\ runError')
          => delays = <<500, 1000, 2000>>]_vars

\* the withdraw transaction of this run was applied by the ledger: one was
\* submitted while the pool was not empty and the pool is empty now
WithdrawLanded ==
  /\ withdrawTxs > 0 /\ pool = 0
  /\ hpc \in {"save", "exit0", "exit1"}

\* C17: when the outcome of a harvest-batch or withdraw submission is
\* unknown, the script re-reads the ledger before reporting: a batch whose
\* accounts were harvested is never counted failed, a withdraw that was
\* applied is never reported failed, and neither is submitted a second time.
C17_AmbiguousReconciled ==
  (running = "harvest-fees" /\ ~dryRun) =>
    /\ \A k \in DOMAIN batches : applied[k] => outcome[k] = "ok"
    /\ WithdrawLanded => withdrawResult = "signature"
    /\ withdrawTxs <= 1

\* --------------------------------------------------------------- claim C20
\* the record a run has to append
RunRecord ==
  [accountsProcessed |-> Len(tokenAccounts),
   successful |-> successful,
   failed |-> failed,
   withdrawnAmount |-> withdrawnAmount,
   withdrawSignature |-> withdrawResult]

\* C20: every harvest run that completes its harvest phase appends exactly
\* one run record (accountsProcessed, successful, failed, and the withdrawn
\* amount and signature when a withdraw happened) to the history, leaving all
\* earlier records present, unchanged and in order; no other step changes the
\* history.
C20_OneRecordPerRun ==
  /\ [][(HarvestReturned /\ hpc = "save" /\ hpc' # "save")
          => harvestHistory' = Append(harvestHistory, RunRecord)]_vars
  /\ [][(hpc # "save") => harvestHistory' = harvestHistory]_vars

\* ---------------------------------------------------------- claims C18-C19
InvalidFeeParameters ==
  cBps < 0 \/ cBps > 10000 \/ cMaxFee < 0

\* C18: creating a fee configuration with feeBasisPoints outside [0, 10000]
\* or a negative maximumFee is rejected by the script with an error: nothing
\* is submitted and no mint is created; and every fee configuration put on a
\* mint has 0 <= feeBasisPoints <= 10000 and maximumFee >= 0.
C18_FeeConfigValidated ==
  /\ InvalidFeeParameters =>
       (createTx = <<>> /\ mintConfig = <<>> /\ cpc \in {"start", "exit1"})
  /\ mintConfig # <<>> =>
       /\ 0 <= mintConfig[1].bps /\ mintConfig[1].bps <= 10000
       /\ mintConfig[1].maximumFee >= 0

\* C19: the fee computation never wraps or alters an amount silently: the
\* amount a transfer script computes with and submits is the amount that was
\* asked for (otherwise the script stops with an error), and the fee is the
\* capped floor of exactly that amount times feeBasisPoints.
C19_NoSilentWrap ==
  script = "explicit" =>
    /\ feeCalculated =>
         LET raw == (requested * feeBasisPoints) \div 10000
         IN fee = IF maxFee > 0 /\ raw > maxFee THEN maxFee ELSE raw
    /\ sentTx # <<>> => sentTx[1].amount = requested

\* --------------------------------------------------------------- claim C21
\* the withdraw of this run was called and threw: main set withdrawnAmount
\* right before the call and withdrawResult never received its return value
WithdrawFailed ==
  /\ withdrawnAmount # Undefined /\ withdrawResult = ""
  /\ hpc \in {"save", "exit0", "exit1"}

\* C21: the harvest command ends with a non-zero exit status whenever at
\* least one harvest batch ended failed or the withdraw failed, and with exit
\* status 0 only when no failure remained unrecovered.
C21_NonZeroExitOnFailure ==
  (running = "harvest-fees" /\ hpc = "exit0") => (failed = 0 /\ ~WithdrawFailed)

\* --------------------------------------------------------------- claim C22
\* C22: when harvestFeesToMint returns, successful + failed equals the number
\* of accounts it was given, for every batchSize >= 1 and concurrency >= 1 and
\* for every order in which concurrently submitted batches settle.
C22_TallyCoversAllAccounts ==
  (HarvestReturned /\ batchSize >= 1 /\ concurrency >= 1)
    => successful + failed = Len(tokenAccounts)

C22_Witness ==
  /\ HarvestReturned /\ hpc = "withdrawRead"
  /\ batchSize = 2 /\ concurrency = 2
  /\ Len(tokenAccounts) = 3
  /\ outcome = <<"ok", "failed">>
  /\ successful = 2 /\ failed = 1

\* --------------------------------------------------------------- claim C23
\* C23: the list returned by account discovery contains only accounts whose
\* withheld amount is greater than 0 and contains no account more than once,
\* including when the supplementary known account is also found by the scan.
C23_DiscoveryFiltersAndDedups ==
  [][(running = "harvest-fees" /\ hpc = "discover" /\ hpc' # "discover") =>
       /\ \A k \in DOMAIN tokenAccounts' : withheld[tokenAccounts'[k]] > 0
       /\ \A j, k \in DOMAIN tokenAccounts' :
            tokenAccounts'[j] = tokenAccounts'[k] => j = k]_vars

C23_Witness ==
  /\ running = "harvest-fees" /\ hpc = "harvest" /\ i = 0
  /\ tokenAccounts = <<1, SpecificAccount>>
  /\ withheld[1] > 0 /\ withheld[2] = 0 /\ withheld[SpecificAccount] > 0

Wallets == 1..NumWallets

\* the fee the ledger withholds from a transfer, as the repository computes
\* it for createTransferCheckedWithFeeInstruction
LedgerFee(amt, bps, cap) == FeeExplicit(amt, bps, cap)

\* main up to the loop: every wallet of walletsWithTokens has a token account
\* with amount > 0, and balance holds the amount read from the ledger
BetweenInit ==
  /\ HarvestIdle /\ XferIdle /\ CreateIdle /\ ParallelIdle /\ reports = <<>>
  /\ onChain \in [Wallets -> 1..MaxAmount]
  /\ walletsWithTokens = onChain
  /\ mintBps \in BasisPoints
  /\ mintMaxFee \in MaximumFees
  /\ amountLamports \in 1..MaxAmount
  /\ bcount \in 1..MaxCount
  /\ bi = 0 /\ sourceIndex = 0 /\ destIndex = 0
  /\ bpc = "loop"

BetweenInputsUnchanged == UNCHANGED <<mintBps, mintMaxFee, amountLamports, bcount>>

\* one iteration up to the submission: random source and destination, the
\* 'Skipping transfer' check on source.balance, createTransferCheckedInstruction
BWL_Iterate(src, dst) ==
  /\ bpc = "loop" /\ bi < bcount
  /\ src # dst
  /\ IF walletsWithTokens[src] < amountLamports
       THEN /\ bi' = bi + 1
            /\ UNCHANGED <<sourceIndex, destIndex, bpc>>
       ELSE /\ sourceIndex' = src /\ destIndex' = dst
            /\ bpc' = "sending"
            /\ UNCHANGED bi
  /\ UNCHANGED <<walletsWithTokens, onChain>>
  /\ BetweenInputsUnchanged

\* sendAndConfirmTransaction settles.  The ledger applies the transfer only
\* when the source account holds the amount: the source is debited the amount
\* and the destination credited the amount less the withheld fee.  When the
\* call returns the script updates its balances; when it throws it logs the
\* error
BWL_Settles(res) ==
  /\ bpc = "sending"
  /\ LET f == LedgerFee(amountLamports, mintBps, mintMaxFee)
     IN /\ IF res \in {"confirmed", "ambiguous"}
             THEN /\ onChain[sourceIndex] >= amountLamports
                  /\ onChain' = [onChain EXCEPT ![sourceIndex] = @ - amountLamports,
                                                ![destIndex] = @ + amountLamports - f]
             ELSE UNCHANGED onChain
        /\ IF res = "confirmed"
             THEN walletsWithTokens' =
                    [walletsWithTokens EXCEPT ![sourceIndex] = @ - amountLamports,
                                              ![destIndex] = @ + amountLamports]
             ELSE UNCHANGED walletsWithTokens
  /\ bi' = bi + 1
  /\ bpc' = "loop"
  /\ UNCHANGED <<sourceIndex, destIndex>>
  /\ BetweenInputsUnchanged

\* the loop ends: 'Transfers completed.'
BWL_Exit ==
  /\ bpc = "loop" /\ bi >= bcount
  /\ bpc' = "done"
  /\ UNCHANGED <<walletsWithTokens, onChain, bi, sourceIndex, destIndex>>
  /\ BetweenInputsUnchanged

BetweenNext ==
  \/ /\ \E src, dst \in Wallets : BWL_Iterate(src, dst)
     /\ UNCHANGED <<xvars, hvars, cvars, pvars, reports>>
  \/ /\ \E res \in TxOutcomes : BWL_Settles(res)
     /\ UNCHANGED <<xvars, hvars, cvars, pvars, reports>>
  \/ BWL_Exit /\ UNCHANGED <<xvars, hvars, cvars, pvars, reports>>

BetweenSpec == BetweenInit /\ [][BetweenNext]_vars

\* --------------------------------------------------------------- claim C25
\* C25: in transfer-between-wallets the balance used to decide whether the
\* next transfer is submitted agrees with the ledger: a successful transfer on
\* a fee-bearing mint leaves each wallet's locally tracked balance equal to
\* its on-chain balance when they were equal before it, and no transfer is
\* submitted from a wallet whose on-chain balance is below the amount.
C25_LocalBalanceAgrees ==
  /\ [][(bpc = "sending" /\ walletsWithTokens' # walletsWithTokens
           /\ walletsWithTokens = onChain) => walletsWithTokens' = onChain']_vars
  /\ [](bpc = "sending" => onChain[sourceIndex] >= amountLamports)

\* ------------------- a run of harvest-fees beside other processes' runs
\* another process (a second child of parallel-harvest given the same mint, or
\* another invocation of a harvest script) gets a harvest of account a applied
OtherHarvest(a) ==
  /\ running = "harvest-fees"
  /\ withheld[a] > 0
  /\ HarvestApplied({a})
  /\ UNCHANGED <<running, runs, hpc, options, discoverLocals, harvestLocals,
                 zeroBranch, withdrawLocals, runError, harvestHistory>>

\* another process gets its withdraw from the mint applied
OtherWithdraw ==
  /\ running = "harvest-fees"
  /\ pool > 0
  /\ WithdrawApplied
  /\ UNCHANGED <<running, runs, hpc, options, discoverLocals, harvestLocals,
                 zeroBranch, withdrawLocals, runError, harvestHistory>>

\* one run of harvest-fees on a mint that holds withheld fees
RaceStart ==
  /\ runs = 0
  /\ \E bs \in BatchSizes, c \in Concurrencies, dr \in BOOLEAN :
       StartRun("harvest-fees", bs, c, dr)

RaceNext ==
  \/ RaceStart /\ UNCHANGED <<xvars, cvars, bvars, pvars, reports>>
  \/ /\ \E scan \in Scans : HF_Discover(scan)
     /\ UNCHANGED <<xvars, cvars, bvars, pvars, reports>>
  \/ HF_DiscoverFails /\ UNCHANGED <<xvars, cvars, bvars, pvars, reports>>
  \/ HF_ZeroCheck /\ UNCHANGED <<xvars, cvars, bvars, pvars, reports>>
  \/ HF_GroupStart /\ UNCHANGED <<xvars, cvars, bvars, pvars, reports>>
  \/ /\ \E k \in DOMAIN batches, res \in TxOutcomes : HF_BatchSettles(k, res)
     /\ UNCHANGED <<xvars, cvars, bvars, pvars, reports>>
  \/ HF_GroupEnd /\ UNCHANGED <<xvars, cvars, bvars, pvars, reports>>
  \/ /\ \E readOk \in BOOLEAN : HF_WithdrawRead(readOk)
     /\ UNCHANGED <<xvars, cvars, bvars, pvars, reports>>
  \/ HF_WithdrawCall /\ UNCHANGED <<xvars, cvars, bvars, pvars, reports>>
  \/ /\ \E res \in TxOutcomes : HF_WithdrawSettles(res)
     /\ UNCHANGED <<xvars, cvars, bvars, pvars, reports>>
  \/ HF_Save /\ UNCHANGED <<xvars, cvars, bvars, pvars, reports>>
  \/ /\ \E a \in Accounts : OtherHarvest(a)
     /\ UNCHANGED <<xvars, cvars, bvars, pvars, reports>>
  \/ OtherWithdraw /\ UNCHANGED <<xvars, cvars, bvars, pvars, reports>>

RaceSpec == DryRunPairInit /\ [][RaceNext]_vars

LoopStep ==
  /\ HF_GroupStart \/ HF_GroupEnd
  /\ UNCHANGED <<xvars, cvars, bvars, pvars, reports>>

SettleStep ==
  /\ \E k \in DOMAIN batches, res \in TxOutcomes : HF_BatchSettles(k, res)
  /\ UNCHANGED <<xvars, cvars, bvars, pvars, reports>>

LiveNext ==
  \/ RaceStart /\ UNCHANGED <<xvars, cvars, bvars, pvars, reports>>
  \/ /\ \E scan \in Scans : HF_Discover(scan)
     /\ UNCHANGED <<xvars, cvars, bvars, pvars, reports>>
  \/ HF_DiscoverFails /\ UNCHANGED <<xvars, cvars, bvars, pvars, reports>>
  \/ HF_ZeroCheck /\ UNCHANGED <<xvars, cvars, bvars, pvars, reports>>
  \/ LoopStep
  \/ SettleStep
  \/ /\ \E readOk \in BOOLEAN : HF_WithdrawRead(readOk)
     /\ UNCHANGED <<xvars, cvars, bvars, pvars, reports>>
  \/ HF_WithdrawCall /\ UNCHANGED <<xvars, cvars, bvars, pvars, reports>>
  \/ /\ \E res \in TxOutcomes : HF_WithdrawSettles(res)
     /\ UNCHANGED <<xvars, cvars, bvars, pvars, reports>>
  \/ HF_Save /\ UNCHANGED <<xvars, cvars, bvars, pvars, reports>>

LiveSpec ==
  /\ DryRunPairInit /\ [][LiveNext]_vars
  /\ WF_vars(LoopStep) /\ WF_vars(SettleStep)

\* --------------------------------------------------------------- claim C27
\* C27: harvestFeesToMint terminates and returns its tally for every finite
\* account list and every integer batch size and concurrency that the
\* command-line options can produce (including 0), provided that every
\* submitted batch eventually settles.
C27_HarvestTerminates ==
  (running = "harvest-fees" /\ hpc = "harvest") ~> (hpc \notin {"harvest", "awaitGroup"})

\* --------------------------------------------------------------- claim C29
\* C29: the explicit-fee transfer script never submits a transfer whose
\* amount exceeds the source account's balance, including when the mint has
\* no transfer-fee configuration (fee taken as 0).
C29_ExplicitNeverOverdraws ==
  (script = "explicit" /\ sentTx # <<>>) => sentTx[1].amount <= sourceAmount

\* ------------------------------------- parallel-harvest (unnamed/part_009)
\* exitCode of a child that has not exited
NoExit == -1
\* exit codes of a child harvest-fees process
ExitCodes == {0, 1}
AllCompleted == "All operations completed successfully."

ParallelInit ==
  /\ HarvestIdle /\ XferIdle /\ CreateIdle /\ BetweenIdle /\ reports = <<>>
  /\ mintsLen \in 1..MaxMints
  /\ walletsLen \in 1..MaxWalletPaths
  /\ rpcsLen \in 1..MaxRpcs
  /\ pConcurrency \in Concurrencies
  /\ operations = <<>> /\ opBatches = <<>> /\ pi = 0
  /\ spawned = <<>> /\ exitCode = <<>> /\ summary = ""
  /\ ppc = "start"

ParallelInputsUnchanged == UNCHANGED <<mintsLen, walletsLen, rpcsLen, pConcurrency>>

\* main: the operation pushed for options.mints[idx]
Operation(idx) ==
  [mint |-> idx, wallet |-> idx % walletsLen, rpc |-> idx % rpcsLen]

\* main: one harvest operation per mint, then batches = chunk(operations,
\* concurrency)
PH_Build ==
  /\ ppc = "start"
  /\ LET ops == [k \in 1..mintsLen |-> Operation(k - 1)]
     IN /\ operations' = ops
        /\ opBatches' = Chunk(ops, pConcurrency)
  /\ exitCode' = [k \in 1..mintsLen |-> NoExit]
  /\ ppc' = "loop"
  /\ UNCHANGED <<pi, spawned, summary>>
  /\ ParallelInputsUnchanged

\* main: one iteration of the loop over the batches starts a child harvest
\* (harvestFees -> runCommand -> spawn) for every operation of the batch; after
\* the last batch main prints that all operations completed successfully
PH_BatchStart ==
  /\ ppc = "loop"
  /\ IF pi < Len(opBatches)
       THEN /\ spawned' = spawned \o opBatches[pi + 1]
            /\ ppc' = "await"
            /\ UNCHANGED summary
       ELSE /\ summary' = AllCompleted
            /\ ppc' = "done"
            /\ UNCHANGED spawned
  /\ UNCHANGED <<operations, opBatches, pi, exitCode>>
  /\ ParallelInputsUnchanged

\* runCommand: the child of operation k closes with an exit code and the
\* promise resolves with it
PH_ChildExits(k, code) ==
  /\ ppc = "await"
  /\ k \in DOMAIN operations
  /\ operations[k] \in Range(opBatches[pi + 1])
  /\ exitCode[k] = NoExit
  /\ exitCode' = [exitCode EXCEPT ![k] = code]
  /\ UNCHANGED <<operations, opBatches, pi, spawned, summary, ppc>>
  /\ ParallelInputsUnchanged

\* await Promise.all(promises) returns: every child of the batch has exited;
\* the resolved values are not looked at
PH_BatchEnd ==
  /\ ppc = "await"
  /\ \A k \in DOMAIN operations :
       operations[k] \in Range(opBatches[pi + 1]) => exitCode[k] # NoExit
  /\ pi' = pi + 1
  /\ ppc' = "loop"
  /\ UNCHANGED <<operations, opBatches, spawned, exitCode, summary>>
  /\ ParallelInputsUnchanged

ParallelNext ==
  \/ PH_Build /\ UNCHANGED <<xvars, hvars, cvars, bvars, reports>>
  \/ PH_BatchStart /\ UNCHANGED <<xvars, hvars, cvars, bvars, reports>>
  \/ /\ \E k \in DOMAIN operations, code \in ExitCodes : PH_ChildExits(k, code)
     /\ UNCHANGED <<xvars, hvars, cvars, bvars, reports>>
  \/ PH_BatchEnd /\ UNCHANGED <<xvars, hvars, cvars, bvars, reports>>

ParallelSpec == ParallelInit /\ [][ParallelNext]_vars

\* --------------------------------------------------------------- claim C28
\* C28: parallel-harvest starts exactly one child harvest per mint, with mint
\* i using wallet i mod |wallets| and RPC i mod |rpcs|, and it reports that
\* all operations completed successfully only if every child harvest exited
\* with code 0.
C28_OneChildPerMintAndHonestSummary ==
  /\ ppc \notin {"idle", "start"} =>
       /\ Len(operations) = mintsLen
       /\ \A k \in DOMAIN operations :
            operations[k] = [mint |-> k - 1, wallet |-> (k - 1) % walletsLen,
                             rpc |-> (k - 1) % rpcsLen]
  /\ \A n \in DOMAIN spawned : spawned[n] \in Range(operations)
  /\ ppc = "done" =>
       \A m \in 0..(mintsLen - 1) :
         Cardinality({n \in DOMAIN spawned : spawned[n].mint = m}) = 1
  /\ summary = AllCompleted =>
       \A k \in DOMAIN operations : exitCode[k] = 0

\* --------------------------------------------------------------- claim C30
\* gross amounts the fee is computed for: the small ones and 10000 base
\* units, the smallest amount whose fee shows a single basis point
FeeGrossAmounts == GrossAmounts \cup {BasisPointDenominator}

====
